---- MODULE Spec2Model ----
(***************************************************************************)
(* office2md: the batched, concurrency-bounded PDF text extraction of      *)
(* app/utils/pdf_utils.py (PDFProcessor), modelled as a state machine.     *)
(*                                                                         *)
(* The asyncio event loop is modelled by its FIFO ready queue: one action  *)
(* pops the head of the queue and runs that task up to its next await.     *)
(* The ProcessPoolExecutor is modelled by a queue of submitted calls and   *)
(* the set of calls executing in worker processes; worker steps interleave *)
(* freely with the event loop.                                             *)
(*                                                                         *)
(* Environment (PyMuPDF, the recognition service): fitz.open may fail,     *)
(* page.get_text() returns a string, page.get_pixmap() and pix.save() may  *)
(* raise, a recognition call returns a text, an empty text or None, or the *)
(* executor future raises.                                                 *)
(*                                                                         *)
(* A session is driven either by upload_file of app/api/md.py, with the    *)
(* argument list it passes to extract_text, or by a caller that passes the *)
(* arguments of extract_text's signature.                                  *)
(***************************************************************************)
EXTENDS Integers, Sequences, FiniteSets, TLC

\* ------------------------------------------------------------------ bounds
MaxPages == 3
MaxBatchSize == 2
MaxConcurrentLimit == 2
\* Injected environment faults per session (get_pixmap, pix.save or the
\* executor future raising).
MaxFaults == 1

\* ------------------------------------------------------------------- texts
\* A text is a sequence of one-character strings.  Optional[str] is a record:
\* None has some = FALSE.
None == [some |-> FALSE, text |-> <<>>]
Some(t) == [some |-> TRUE, text |-> t]

Lower == <<"a", "b", "c", "d", "e", "f">>
Upper == <<"A", "B", "C", "D", "E", "F">>

IsSpace(c) == c \in {" ", "\n"}

RECURSIVE LStrip(_)
LStrip(s) == IF s # <<>> /\ IsSpace(Head(s)) THEN LStrip(Tail(s)) ELSE s

RECURSIVE RStrip(_)
RStrip(s) ==
  IF s # <<>> /\ IsSpace(s[Len(s)]) THEN RStrip(SubSeq(s, 1, Len(s) - 1)) ELSE s

\* str.strip()
Strip(s) == RStrip(LStrip(s))

\* What page.get_text() returns for a page without a text layer: nothing on
\* even pages, whitespace only on odd pages.
Blank(p) == IF p % 2 = 0 THEN <<>> ELSE <<" ">>

\* What page.get_text() may return for page p: a blank, or a padded letter
\* that identifies the page.
RawTexts(p) == {Blank(p), <<" ", Lower[p + 1], "\n">>}

\* What the recognition of page p may return through the executor future:
\* a text, the empty string, None (ocr_worker caught an error) or an
\* exception of the future itself.
OcrOutcomes(p) ==
  {[raise |-> FALSE, val |-> Some(<<Upper[p + 1]>>)],
   [raise |-> FALSE, val |-> Some(<<>>)],
   [raise |-> FALSE, val |-> None],
   [raise |-> TRUE, val |-> None]}

\* Python truth value of an Optional[str]: `if text`
Truthy(x) == x.some /\ x.text # <<>>

Min(a, b) == IF a <= b THEN a ELSE b

\* ------------------------------------------------------------------- state
VARIABLES
  concurrent_limit, \* PDFProcessor.concurrent_limit
  executor,         \* PDFProcessor.executor: "None" or "pool"
  session,          \* the async-with block: "new", "entered", "exited"
  pdf,              \* the file at pdf_path: [canOpen, total_pages, rawText]
  batch_size,       \* extract_text's batch_size argument
  pdf_document,     \* extract_text's local: "None", "open", "closed"
  closeCount,       \* number of pdf_document.close() calls
  mpc,              \* extract_text: "idle", "gathering", "returned"
  tasks,            \* the batch tasks, in creation order
  ptasks,           \* the page tasks, in creation order
  ready,            \* the event loop's ready queue
  poolQueue,        \* calls submitted to the executor, not yet started
  running,          \* page tasks whose ocr_worker call is executing
  tmpFiles,         \* temporary image files that exist (by page task)
  rendered,         \* page tasks that called page.get_pixmap()
  tmpCreated,       \* page tasks that created a temporary file
  submitted,        \* page tasks that called run_in_executor
  reordered,        \* some page task finished before one of a lower page
  faults,           \* environment faults injected so far
  all_results,      \* extract_text's all_results before the sort
  collected,        \* extract_text got past the collection loop
  result,           \* the (success, text) pair extract_text returned
  raised,           \* extract_text raised to its caller
  upload,           \* who drives the session, and the uploaded file
  handler,          \* upload_file: its position, text, deletion, response
  report            \* the success counts extract_text logs

vars == <<concurrent_limit, executor, session, pdf, batch_size, pdf_document,
          closeCount, mpc, tasks, ptasks, ready, poolQueue, running, tmpFiles,
          rendered, tmpCreated, submitted, reordered, faults, all_results,
          collected, result, raised, upload, handler, report>>

NoResult == [success |-> FALSE, text |-> <<"?">>]

AllRawTexts == UNION {RawTexts(p) : p \in 0..(MaxPages - 1)}

\* The documents: one that fitz.open rejects, and every document of up to
\* MaxPages pages.
Pdfs ==
  {[canOpen |-> FALSE, total_pages |-> 0, rawText |-> <<>>]} \cup
  UNION {
    {[canOpen |-> TRUE, total_pages |-> n, rawText |-> r] :
       r \in {f \in [0..(n - 1) -> AllRawTexts] :
                \A p \in 0..(n - 1) : f[p] \in RawTexts(p)}} :
    n \in 0..MaxPages}

\* No MarkdownResponse yet.
NoResponse == [success |-> FALSE, text |-> <<"?">>]

\* A caller that passes extract_text the arguments of its signature.
DirectUse == [caller |-> "direct", is_pdf |-> TRUE, first_text |-> <<>>]

\* The uploads upload_file handles: a .pdf or another file, whose first
\* markitdown.convert yields no text or some text.
Uploads ==
  {DirectUse} \cup
  {[caller |-> "upload_file", is_pdf |-> e, first_text |-> t] :
     e \in BOOLEAN, t \in {<<>>, <<"m">>}}

\* State after PDFProcessor(concurrent_limit) is constructed (__init__) and
\* before the caller enters the session.
Init ==
  /\ concurrent_limit \in 1..MaxConcurrentLimit
  /\ executor = "None"
  /\ session = "new"
  /\ pdf \in Pdfs
  /\ batch_size \in 0..MaxBatchSize
  /\ pdf_document = "None"
  /\ closeCount = 0
  /\ mpc = "idle"
  /\ tasks = <<>>
  /\ ptasks = <<>>
  /\ ready = <<>>
  /\ poolQueue = <<>>
  /\ running = {}
  /\ tmpFiles = {}
  /\ rendered = {}
  /\ tmpCreated = {}
  /\ submitted = {}
  /\ reordered = FALSE
  /\ faults = 0
  /\ all_results = <<>>
  /\ collected = FALSE
  /\ result = NoResult
  /\ raised = FALSE
  /\ upload \in Uploads
  /\ handler = [pc |-> IF upload.caller = "upload_file" THEN "start" ELSE "none",
                text_content |-> <<>>,
                deletion_scheduled |-> FALSE,
                response |-> NoResponse]
  /\ report = [batch_success |-> <<>>, valid |-> 0]

\* ----------------------------------------------------------- upload_file
\* The handler's tail: schedule the delayed deletion of the saved file and
\* return the MarkdownResponse.
Respond(text) ==
  [pc |-> "done",
   text_content |-> text,
   deletion_scheduled |-> TRUE,
   response |-> [success |-> TRUE, text |-> text]]

\* upload_file up to the PDF fallback: save the upload, convert it; a .pdf
\* without text goes on to a PDFProcessor session, anything else is
\* answered at once.
UploadStart ==
  /\ upload.caller = "upload_file"
  /\ handler.pc = "start"
  /\ handler' = IF upload.is_pdf /\ upload.first_text = <<>>
                THEN [handler EXCEPT !.pc = "session",
                                     !.text_content = upload.first_text]
                ELSE Respond(upload.first_text)
  /\ UNCHANGED <<concurrent_limit, executor, session, pdf, batch_size,
                 pdf_document, closeCount, mpc, tasks, ptasks, ready,
                 poolQueue, running, tmpFiles, rendered, tmpCreated,
                 submitted, reordered, faults, all_results, collected,
                 result, raised, upload, report>>

\* upload_file after the async-with block: the exception of the block
\* leaves the handler, or the merged text replaces the empty one and the
\* handler answers.
UploadFinish ==
  /\ upload.caller = "upload_file"
  /\ handler.pc = "session"
  /\ session = "exited"
  /\ handler' = IF mpc = "TypeError"
                THEN [handler EXCEPT !.pc = "raised"]
                ELSE Respond(IF result.success THEN result.text
                             ELSE handler.text_content)
  /\ UNCHANGED <<concurrent_limit, executor, session, pdf, batch_size,
                 pdf_document, closeCount, mpc, tasks, ptasks, ready,
                 poolQueue, running, tmpFiles, rendered, tmpCreated,
                 submitted, reordered, faults, all_results, collected,
                 result, raised, upload, report>>

\* The arguments a call of extract_text passes after self.
UploadCall == [positional |-> 5, batch_size_keyword |-> TRUE]
ConformingCall == [positional |-> 3, batch_size_keyword |-> TRUE]
TheCall == IF upload.caller = "upload_file" THEN UploadCall ELSE ConformingCall

\* Python binds a call to extract_text(self, pdf_path, api_key, mlm_prompt,
\* batch_size=10): three or four positional arguments, and batch_size not
\* given twice.  Otherwise the call raises TypeError before the body runs.
CallBinds(call) ==
  /\ call.positional >= 3
  /\ call.positional <= 4
  /\ ~(call.positional = 4 /\ call.batch_size_keyword)

\* ------------------------------------------------------------ the session
\* __aenter__: ProcessPoolExecutor(max_workers=self.concurrent_limit)
AEnter ==
  /\ session = "new"
  /\ upload.caller = "direct" \/ handler.pc = "session"
  /\ executor' = "pool"
  /\ session' = "entered"
  /\ UNCHANGED <<concurrent_limit, pdf, batch_size, pdf_document, closeCount,
                 mpc, tasks, ptasks, ready, poolQueue, running, tmpFiles,
                 rendered, tmpCreated, submitted, reordered, faults,
                 all_results, collected, result, raised>>
  /\ UNCHANGED <<upload, handler, report>>

\* As MaxWorkers, one worker too many.
MaxWorkersOffByOne == concurrent_limit + 1

\* max_workers of the pool: the number of worker processes
MaxWorkers == concurrent_limit

\* A worker process takes the next submitted call.
WorkerStart ==
  /\ executor = "pool"
  /\ poolQueue # <<>>
  /\ Cardinality(running) < MaxWorkers
  /\ running' = running \cup {Head(poolQueue)}
  /\ poolQueue' = Tail(poolQueue)
  /\ UNCHANGED <<concurrent_limit, executor, session, pdf, batch_size,
                 pdf_document, closeCount, mpc, tasks, ptasks, ready,
                 tmpFiles, rendered, tmpCreated, submitted, reordered, faults,
                 all_results, collected, result, raised>>
  /\ UNCHANGED <<upload, handler, report>>

\* ocr_worker returns (or the future fails): the future of page task t is
\* resolved and the task is put on the ready queue.
WorkerFinish ==
  \E t \in running :
    \E o \in OcrOutcomes(ptasks[t].page_num) :
      /\ o.raise => faults < MaxFaults
      /\ faults' = IF o.raise THEN faults + 1 ELSE faults
      /\ running' = running \ {t}
      /\ ptasks' = [ptasks EXCEPT ![t].fut = o]
      /\ ready' = Append(ready, [kind |-> "pageWake", id |-> t])
      /\ UNCHANGED <<concurrent_limit, executor, session, pdf, batch_size,
                     pdf_document, closeCount, mpc, tasks, poolQueue,
                     tmpFiles, rendered, tmpCreated, submitted,
                     reordered, all_results, collected, result, raised>>
  /\ UNCHANGED <<upload, handler, report>>

\* As ShutdownExecutor, leaving self.executor set.
ShutdownExecutorKept == "pool"

\* self.executor = None after the shutdown
ShutdownExecutor == "None"

\* __aexit__: executor.shutdown(wait=True) blocks the event loop until every
\* submitted call has run, then the executor is reset.  It runs in the same
\* event-loop step as the return of extract_text.
AExit ==
  /\ session = "entered"
  /\ mpc \in {"returned", "TypeError"}
  /\ poolQueue = <<>>
  /\ running = {}
  /\ executor' = ShutdownExecutor
  /\ session' = "exited"
  /\ UNCHANGED <<concurrent_limit, pdf, batch_size, pdf_document, closeCount,
                 mpc, tasks, ptasks, ready, poolQueue, running, tmpFiles,
                 rendered, tmpCreated, submitted, reordered, faults,
                 all_results, collected, result, raised>>
  /\ UNCHANGED <<upload, handler, report>>

\* The event loop runs a callback only when the caller's coroutine is
\* suspended: not between the return of extract_text and the end of __aexit__.
LoopFree == ~(session = "entered" /\ mpc \in {"returned", "TypeError"})

\* ------------------------------------------------------------ batch plan
\* As BatchStarts, with the stop of the range one too far.
BatchStartsInclusive(total, bs) == [i \in 1..((total + bs) \div bs) |-> (i - 1) * bs]

\* range(0, total_pages, batch_size), for batch_size >= 1
BatchStarts(total, bs) == [i \in 1..((total + bs - 1) \div bs) |-> (i - 1) * bs]

\* As EndPage, overlapping the next batch by one page.
EndPageOverlap(start, bs, total) == Min(start + bs + 1, total)

\* end_page = min(start_page + batch_size, total_pages)
EndPage(start, bs, total) == Min(start + bs, total)

\* The (batch_num, task) pairs extract_text creates, one per batch.
NewTasks(total, bs) ==
  LET starts == BatchStarts(total, bs)
  IN  [i \in 1..Len(starts) |->
         [batch_num  |-> starts[i] \div bs + 1,
          start_page |-> starts[i],
          end_page   |-> EndPage(starts[i], bs, total),
          pc         |-> "created",
          children   |-> <<>>,
          results    |-> <<>>]]

\* range(start_page, min(end_page, len(pdf_document))) of process_batch
PageRange(start, end, len) ==
  LET stop == Min(end, len)
  IN  IF stop > start THEN [i \in 1..(stop - start) |-> start + i - 1] ELSE <<>>

\* ----------------------------------------------------------- aggregation
RECURSIVE Flatten(_)
\* all_results.extend(results) over the batches, in batch order
Flatten(brs) == IF brs = <<>> THEN <<>> ELSE Head(brs) \o Flatten(Tail(brs))

RECURSIVE InsertByPage(_, _)
InsertByPage(sorted, x) ==
  IF sorted = <<>> THEN <<x>>
  ELSE IF x.page_num < Head(sorted).page_num THEN <<x>> \o sorted
  ELSE <<Head(sorted)>> \o InsertByPage(Tail(sorted), x)

RECURSIVE SortByPageFrom(_, _)
SortByPageFrom(acc, rest) ==
  IF rest = <<>> THEN acc
  ELSE SortByPageFrom(InsertByPage(acc, Head(rest)), Tail(rest))

RECURSIVE Reversed(_)
Reversed(s) == IF s = <<>> THEN <<>> ELSE Reversed(Tail(s)) \o <<Head(s)>>

\* As SortByPage, with the key negated.
SortByPageDescending(rs) == Reversed(SortByPageFrom(<<>>, rs))

\* all_results.sort(key=lambda x: x[0]): stable, ascending page number
SortByPage(rs) == SortByPageFrom(<<>>, rs)

RECURSIVE KeepNotNone(_)
\* As ValidTexts, keeping every text that is not None.
KeepNotNone(rs) ==
  IF rs = <<>> THEN <<>>
  ELSE IF Head(rs).text.some
       THEN <<Head(rs).text.text>> \o KeepNotNone(Tail(rs))
       ELSE KeepNotNone(Tail(rs))

RECURSIVE KeepTruthy(_)
KeepTruthy(rs) ==
  IF rs = <<>> THEN <<>>
  ELSE IF Truthy(Head(rs).text)
       THEN <<Head(rs).text.text>> \o KeepTruthy(Tail(rs))
       ELSE KeepTruthy(Tail(rs))

\* valid_texts = [text for _, text in all_results if text]
ValidTexts(rs) == KeepTruthy(rs)

RECURSIVE Join(_)
\* '\n'.join(texts)
Join(ts) ==
  IF ts = <<>> THEN <<>>
  ELSE IF Len(ts) = 1 THEN Head(ts)
  ELSE Head(ts) \o <<"\n">> \o Join(Tail(ts))

\* except Exception in extract_text: log and return (False, "").
\* As the handler, re-raising instead.
SessionExceptReraise == [raised |-> TRUE, result |-> NoResult]

SessionExcept == [raised |-> FALSE, result |-> [success |-> FALSE, text |-> <<>>]]

\* The per-batch log line divides by batch_total.
BatchLogFails(brs) == \E i \in 1..Len(brs) : Len(brs[i]) = 0

RECURSIVE CountNotNone(_)
\* batch_success = sum(1 for _, text in results if text is not None)
CountNotNone(results) ==
  IF results = <<>> THEN 0
  ELSE (IF Head(results).text.some THEN 1 ELSE 0) + CountNotNone(Tail(results))

\* What extract_text logs: the success count of every batch, and
\* len(valid_texts), the numerator of the final success rate.
Report(brs) ==
  [batch_success |-> [i \in 1..Len(brs) |-> CountNotNone(brs[i])],
   valid |-> Len(ValidTexts(SortByPage(Flatten(brs))))]

\* extract_text after the gather: collect, sort, filter, log, return.  The
\* final log line divides by total_pages.
Summary(brs, total) ==
  LET valid_texts == ValidTexts(SortByPage(Flatten(brs)))
  IN  IF BatchLogFails(brs) \/ total = 0 THEN SessionExcept
      ELSE IF valid_texts # <<>>
           THEN [raised |-> FALSE,
                 result |-> [success |-> TRUE, text |-> Join(valid_texts)]]
           ELSE [raised |-> FALSE,
                 result |-> [success |-> FALSE, text |-> <<>>]]

\* As DocTruthy, testing `pdf_document is not None`.
DocNotNone(total) == TRUE

\* `if pdf_document:` in the finally block.  fitz.Document defines __len__
\* (its page count) and no __bool__, so the test is len(pdf_document) > 0.
DocTruthy(total) == total > 0

\* extract_text returns `out`; the finally block closes the document.
Finish(opened, out) ==
  /\ mpc' = "returned"
  /\ result' = out.result
  /\ raised' = out.raised
  /\ pdf_document' = IF ~opened THEN "None"
                     ELSE IF DocTruthy(pdf.total_pages) THEN "closed" ELSE "open"
  /\ closeCount' = IF opened /\ DocTruthy(pdf.total_pages)
                   THEN closeCount + 1 ELSE closeCount

\* ----------------------------------------------------------- extract_text
\* The call of extract_text does not bind: TypeError is raised at the call,
\* inside the async-with block, and no line of extract_text runs.
ExtractCallFails ==
  /\ session = "entered"
  /\ mpc = "idle"
  /\ ~CallBinds(TheCall)
  /\ mpc' = "TypeError"
  /\ UNCHANGED <<concurrent_limit, executor, session, pdf, batch_size,
                 pdf_document, closeCount, tasks, ptasks, ready, poolQueue,
                 running, tmpFiles, rendered, tmpCreated, submitted,
                 reordered, faults, all_results, collected, result, raised,
                 upload, handler, report>>

\* extract_text up to `await asyncio.gather(...)` of the batch tasks.  With
\* no batch the gather completes at once and the function runs to its end.
ExtractStart ==
  /\ session = "entered"
  /\ mpc = "idle"
  /\ CallBinds(TheCall)
  /\ IF ~pdf.canOpen
       THEN \* fitz.open raises
            /\ Finish(FALSE, SessionExcept)
            /\ UNCHANGED <<tasks, ready, all_results, collected, report>>
     ELSE IF batch_size = 0
       THEN \* ZeroDivisionError computing total_batches
            /\ Finish(TRUE, SessionExcept)
            /\ UNCHANGED <<tasks, ready, all_results, collected, report>>
     ELSE IF NewTasks(pdf.total_pages, batch_size) = <<>>
       THEN /\ all_results' = <<>>
            /\ collected' = TRUE
            /\ report' = Report(<<>>)
            /\ Finish(TRUE, Summary(<<>>, pdf.total_pages))
            /\ UNCHANGED <<tasks, ready>>
     ELSE /\ tasks' = NewTasks(pdf.total_pages, batch_size)
          /\ ready' = ready \o
               [i \in 1..Len(tasks') |-> [kind |-> "batch", id |-> i]]
          /\ mpc' = "gathering"
          /\ pdf_document' = "open"
          /\ UNCHANGED <<closeCount, result, raised, all_results, collected,
                         report>>
  /\ UNCHANGED <<concurrent_limit, executor, session, pdf, batch_size, ptasks,
                 poolQueue, running, tmpFiles, rendered, tmpCreated,
                 submitted, reordered, faults>>
  /\ UNCHANGED <<upload, handler>>

\* asyncio.gather over the batch tasks: the awaiting extract_text is woken by
\* the first batch that raises, or else when every batch is done.
MainWakes(tk, b, raises) ==
  LET raisedBefore == \E i \in 1..Len(tk) : tk[i].pc = "raised"
  IN  /\ ~raisedBefore
      /\ \/ raises
         \/ \A i \in 1..Len(tk) : i # b => tk[i].pc = "done"

\* asyncio.gather over the page tasks of a batch, likewise.
BatchWakes(pt, children, t, raises) ==
  LET raisedBefore == \E i \in 1..Len(children) : pt[children[i]].pc = "raised"
  IN  /\ ~raisedBefore
      /\ \/ raises
         \/ \A i \in 1..Len(children) :
              children[i] # t => pt[children[i]].pc = "done"

\* process_batch up to its gather: one process_page task per page of the
\* batch's range.
RunBatch ==
  /\ LoopFree
  /\ ready # <<>>
  /\ Head(ready).kind = "batch"
  /\ LET b == Head(ready).id
         pages == PageRange(tasks[b].start_page, tasks[b].end_page,
                            pdf.total_pages)
         ids == [i \in 1..Len(pages) |-> Len(ptasks) + i]
     IN  IF pdf_document # "open"
           THEN \* pdf_document[page_num] on a closed document raises
                /\ tasks' = [tasks EXCEPT ![b].pc = "raised"]
                /\ ready' = IF MainWakes(tasks, b, TRUE)
                            THEN Append(Tail(ready), [kind |-> "mainWake", id |-> 0])
                            ELSE Tail(ready)
                /\ UNCHANGED ptasks
         ELSE IF pages = <<>>
           THEN \* gather() of nothing: the batch returns [] at once
                /\ tasks' = [tasks EXCEPT ![b].pc = "done"]
                /\ ready' = IF MainWakes(tasks, b, FALSE)
                            THEN Append(Tail(ready), [kind |-> "mainWake", id |-> 0])
                            ELSE Tail(ready)
                /\ UNCHANGED ptasks
         ELSE /\ ptasks' = ptasks \o
                   [i \in 1..Len(pages) |->
                      [batch |-> b, page_num |-> pages[i], pc |-> "created",
                       ret |-> None, fut |-> [raise |-> FALSE, val |-> None]]]
              /\ tasks' = [tasks EXCEPT ![b].pc = "waiting", ![b].children = ids]
              /\ ready' = Tail(ready) \o
                   [i \in 1..Len(pages) |-> [kind |-> "page", id |-> ids[i]]]
  /\ UNCHANGED <<concurrent_limit, executor, session, pdf, batch_size,
                 pdf_document, closeCount, mpc, poolQueue, running, tmpFiles,
                 rendered, tmpCreated, submitted, reordered, faults,
                 all_results, collected, result, raised>>
  /\ UNCHANGED <<upload, handler, report>>

\* ----------------------------------------------------------- process_page
\* As PageExcept, letting the exception leave process_page.
PageExceptReraise == [raise |-> TRUE, val |-> None]

\* except Exception in process_page: log and return (page_num, None).
PageExcept == [raise |-> FALSE, val |-> None]

\* As NeedsOcr, escalating every page.
AlwaysOcr(text) == TRUE

\* `if text: return page_num, text` — escalate only when the stripped text is
\* empty.
NeedsOcr(text) == text = <<>>

\* The page task t ends with `out` (a return value or an exception); its
\* batch is woken when the gather over its siblings is complete.
PageEnds(t, out, rest) ==
  LET b == ptasks[t].batch
  IN  /\ ptasks' = [ptasks EXCEPT ![t].pc = IF out.raise THEN "raised" ELSE "done",
                                  ![t].ret = out.val]
      /\ reordered' = (reordered \/
            \E u \in 1..Len(ptasks) :
               /\ ptasks[u].page_num < ptasks[t].page_num
               /\ ptasks[u].pc \in {"created", "awaitOcr"})
      /\ ready' = IF BatchWakes(ptasks, tasks[b].children, t, out.raise)
                  THEN Append(rest, [kind |-> "batchWake", id |-> b])
                  ELSE rest

\* process_page up to `await loop.run_in_executor(...)`.
RunPage ==
  /\ LoopFree
  /\ ready # <<>>
  /\ Head(ready).kind = "page"
  /\ LET t == Head(ready).id
         text == Strip(pdf.rawText[ptasks[t].page_num])
     IN  IF pdf_document # "open"
           THEN \* page.get_text() on a closed document raises
                /\ PageEnds(t, [raise |-> TRUE, val |-> None], Tail(ready))
                /\ UNCHANGED <<poolQueue, tmpFiles, rendered, tmpCreated,
                               submitted, faults>>
         ELSE IF ~NeedsOcr(text)
           THEN /\ PageEnds(t, [raise |-> FALSE, val |-> Some(text)], Tail(ready))
                /\ UNCHANGED <<poolQueue, tmpFiles, rendered, tmpCreated,
                               submitted, faults>>
         ELSE \E pixOk \in BOOLEAN, saveOk \in BOOLEAN :
                /\ (~pixOk \/ ~saveOk) => faults < MaxFaults
                /\ faults' = IF pixOk /\ saveOk THEN faults ELSE faults + 1
                /\ rendered' = rendered \cup {t}
                /\ IF ~pixOk
                     THEN \* page.get_pixmap() raises
                          /\ PageEnds(t, PageExcept, Tail(ready))
                          /\ UNCHANGED <<poolQueue, tmpFiles, tmpCreated, submitted>>
                   ELSE IF ~saveOk
                     THEN \* pix.save raises inside the `with`, before the
                          \* inner try: the file is closed, not unlinked
                          /\ tmpCreated' = tmpCreated \cup {t}
                          /\ tmpFiles' = tmpFiles \cup {t}
                          /\ PageEnds(t, PageExcept, Tail(ready))
                          /\ UNCHANGED <<poolQueue, submitted>>
                   ELSE /\ tmpCreated' = tmpCreated \cup {t}
                        /\ tmpFiles' = tmpFiles \cup {t}
                        /\ submitted' = submitted \cup {t}
                        /\ poolQueue' = Append(poolQueue, t)
                        /\ ptasks' = [ptasks EXCEPT ![t].pc = "awaitOcr"]
                        /\ ready' = Tail(ready)
                        /\ UNCHANGED reordered
  /\ UNCHANGED <<concurrent_limit, executor, session, pdf, batch_size,
                 pdf_document, closeCount, mpc, tasks, running, all_results,
                 collected, result, raised>>
  /\ UNCHANGED <<upload, handler, report>>

\* os.unlink(temp_img.name) in the inner finally
Unlink(files, t) == files \ {t}

\* process_page after the await: the inner finally removes the temporary
\* file; the recognition result is returned, or the future's exception is
\* caught by the outer except.
WakePage ==
  /\ LoopFree
  /\ ready # <<>>
  /\ Head(ready).kind = "pageWake"
  /\ LET t == Head(ready).id
         fut == ptasks[t].fut
     IN  /\ tmpFiles' = Unlink(tmpFiles, t)
         /\ IF fut.raise
              THEN PageEnds(t, PageExcept, Tail(ready))
              ELSE PageEnds(t, [raise |-> FALSE, val |-> fut.val], Tail(ready))
  /\ UNCHANGED <<concurrent_limit, executor, session, pdf, batch_size,
                 pdf_document, closeCount, mpc, tasks, poolQueue, running,
                 rendered, tmpCreated, submitted, faults, all_results,
                 collected, result, raised>>
  /\ UNCHANGED <<upload, handler, report>>

\* process_batch after its gather: the results in task order, or the first
\* exception of a page task.
WakeBatch ==
  /\ LoopFree
  /\ ready # <<>>
  /\ Head(ready).kind = "batchWake"
  /\ LET b == Head(ready).id
         children == tasks[b].children
         raises == \E i \in 1..Len(children) : ptasks[children[i]].pc = "raised"
         results == [i \in 1..Len(children) |->
                       [page_num |-> ptasks[children[i]].page_num,
                        text |-> ptasks[children[i]].ret]]
     IN  /\ tasks' = [tasks EXCEPT ![b].pc = IF raises THEN "raised" ELSE "done",
                                   ![b].results = IF raises THEN <<>> ELSE results]
         /\ ready' = IF MainWakes(tasks, b, raises)
                     THEN Append(Tail(ready), [kind |-> "mainWake", id |-> 0])
                     ELSE Tail(ready)
  /\ UNCHANGED <<concurrent_limit, executor, session, pdf, batch_size,
                 pdf_document, closeCount, mpc, ptasks, poolQueue, running,
                 tmpFiles, rendered, tmpCreated, submitted, reordered, faults,
                 all_results, collected, result, raised>>
  /\ UNCHANGED <<upload, handler, report>>

\* extract_text after its gather, to its return.
WakeMain ==
  /\ LoopFree
  /\ ready # <<>>
  /\ Head(ready).kind = "mainWake"
  /\ mpc = "gathering"
  /\ LET brs == [i \in 1..Len(tasks) |-> tasks[i].results]
         raises == \E i \in 1..Len(tasks) : tasks[i].pc = "raised"
     IN  IF raises
           THEN /\ Finish(TRUE, SessionExcept)
                /\ UNCHANGED <<all_results, collected, report>>
         ELSE /\ all_results' = IF BatchLogFails(brs) THEN <<>> ELSE Flatten(brs)
              /\ collected' = ~BatchLogFails(brs)
              /\ report' = IF BatchLogFails(brs) THEN report ELSE Report(brs)
              /\ Finish(TRUE, Summary(brs, pdf.total_pages))
  /\ ready' = Tail(ready)
  /\ UNCHANGED <<concurrent_limit, executor, session, pdf, batch_size, tasks,
                 ptasks, poolQueue, running, tmpFiles, rendered, tmpCreated,
                 submitted, reordered, faults>>
  /\ UNCHANGED <<upload, handler>>

Next ==
  \/ UploadStart
  \/ AEnter
  \/ ExtractCallFails
  \/ ExtractStart
  \/ RunBatch
  \/ RunPage
  \/ WorkerStart
  \/ WorkerFinish
  \/ WakePage
  \/ WakeBatch
  \/ WakeMain
  \/ AExit
  \/ UploadFinish

Spec == Init /\ [][Next]_vars

\* ================================================================ claims
Returned == mpc = "returned"

Tasks == 1..Len(ptasks)

\* The stripped text page p carries natively.
DirectText(p) == Strip(pdf.rawText[p])

\* The text page task t obtained from recognition, <<>> when it got none.
RecognizedText(t) ==
  IF t \in submitted /\ ~ptasks[t].fut.raise /\ ptasks[t].fut.val.some
  THEN ptasks[t].fut.val.text ELSE <<>>

\* The text of page p: its native text, else what recognition gave for it.
PageText(p) ==
  IF DirectText(p) # <<>> THEN DirectText(p)
  ELSE IF \E t \in Tasks : ptasks[t].page_num = p
       THEN RecognizedText(CHOOSE t \in Tasks : ptasks[t].page_num = p)
       ELSE <<>>

RECURSIVE JoinAscending(_, _, _)
\* The non-empty page texts of pages p..n-1 appended to acc, in ascending
\* page index, separated by one newline.
JoinAscending(p, n, acc) ==
  IF p >= n THEN acc
  ELSE JoinAscending(p + 1, n,
         IF PageText(p) = <<>> THEN acc
         ELSE IF acc = <<>> THEN PageText(p)
         ELSE acc \o <<"\n">> \o PageText(p))

\* C1: whenever extract_text returns after its page tasks completed, the
\* returned text is the non-empty page texts joined by a single newline in
\* ascending page index, whatever the order in which the tasks finished.
C1_MergedTextInPageOrder ==
  (Returned /\ collected) =>
     result.text = JoinAscending(0, pdf.total_pages, <<>>)

\* C1 witness: a session over several batches returned the texts of at least
\* two pages although a page finished before a page of lower index.
C1_Witness ==
  /\ Returned /\ collected /\ reordered
  /\ Len(tasks) >= 2
  /\ result.success
  /\ Len(result.text) >= 3

\* C2: in every state at most concurrent_limit recognition calls are running.
C2_AtMostLimitRunning == Cardinality(running) <= concurrent_limit

\* C2 witness: the pool is saturated while a request of another batch waits.
C2_Witness ==
  /\ Cardinality(running) = concurrent_limit
  /\ poolQueue # <<>>
  /\ \E t \in running : ptasks[t].batch # ptasks[Head(poolQueue)].batch

\* C3: for batch_size >= 1 the outcomes collected before aggregation carry
\* the page indices 0..total_pages-1, each exactly once.
C3_EveryPageExactlyOnce ==
  (collected /\ batch_size >= 1) =>
     /\ Len(all_results) = pdf.total_pages
     /\ \A p \in 0..(pdf.total_pages - 1) :
          Cardinality({i \in 1..Len(all_results) : all_results[i].page_num = p}) = 1

\* C3 witness: outcomes collected for a document whose last batch is shorter
\* than batch_size.
C3_Witness ==
  /\ collected
  /\ pdf.total_pages = 3
  /\ batch_size = 2
  /\ Len(tasks) = 2

\* Page task t failed: rendering or saving raised, recognition raised or
\* returned None, or recognition returned the empty string.
RenderFailed(t) == t \in rendered /\ t \notin submitted /\ ptasks[t].pc # "created"
RecognitionFailed(t) ==
  /\ t \in submitted
  /\ ptasks[t].pc \notin {"created", "awaitOcr"}
  /\ (ptasks[t].fut.raise \/ ~ptasks[t].fut.val.some)
RecognitionEmpty(t) ==
  /\ t \in submitted
  /\ ptasks[t].pc \notin {"created", "awaitOcr"}
  /\ ~ptasks[t].fut.raise
  /\ ptasks[t].fut.val = Some(<<>>)
PageFailed(t) == RenderFailed(t) \/ RecognitionFailed(t) \/ RecognitionEmpty(t)

\* sub occurs in text
Contains(text, sub) ==
  \E i \in 0..(Len(text) - Len(sub)) : SubSeq(text, i + 1, i + Len(sub)) = sub

\* C4: a page that fails ends with a no-text outcome and never with an
\* exception; once the session of a non-empty document returns, no exception
\* has reached extract_text, every page has its outcome, and the result
\* holds the text of every page that succeeded.
C4_PageErrorsAbsorbed ==
  /\ \A t \in Tasks :
       PageFailed(t) => ptasks[t].pc = "done" /\ ~Truthy(ptasks[t].ret)
  /\ (Returned /\ pdf.canOpen /\ batch_size >= 1 /\ pdf.total_pages >= 1) =>
       /\ collected /\ ~raised
       /\ \A p \in 0..(pdf.total_pages - 1) :
            \E t \in Tasks : ptasks[t].page_num = p /\ ptasks[t].pc = "done"
       /\ \A t \in Tasks :
            Truthy(ptasks[t].ret) =>
               result.success /\ Contains(result.text, ptasks[t].ret.text)

\* C4 witness: one page failed to render, one failed in recognition, a
\* third succeeded, and the session returned exactly the third page's text.
C4_Witness ==
  /\ Returned
  /\ \E t1, t2, t3 \in Tasks :
       /\ RenderFailed(t1)
       /\ RecognitionFailed(t2)
       /\ Truthy(ptasks[t3].ret)
       /\ result = [success |-> TRUE, text |-> ptasks[t3].ret.text]

\* C5: a page with non-empty stripped native text is never rendered, gets no
\* temporary image and no recognition call, and its task returns that text.
C5_DirectTextNeverEscalates ==
  \A t \in Tasks :
    DirectText(ptasks[t].page_num) # <<>> =>
      /\ t \notin rendered \cup tmpCreated \cup submitted
      /\ ptasks[t].pc \in {"created", "done"}
      /\ ptasks[t].pc = "done" =>
           ptasks[t].ret = Some(DirectText(ptasks[t].page_num))

\* C5 witness: a page returned its native text while a sibling was escalated.
C5_Witness ==
  \E t, u \in Tasks :
    /\ DirectText(ptasks[t].page_num) # <<>>
    /\ ptasks[t].pc = "done"
    /\ ptasks[t].ret.text = <<Lower[ptasks[t].page_num + 1]>>
    /\ u \in submitted

\* C6: for a document with zero pages extract_text creates no batch and no
\* page task, submits no recognition call, does not raise and returns
\* (False, "").
C6_EmptyDocument ==
  (pdf.canOpen /\ pdf.total_pages = 0) =>
     /\ tasks = <<>> /\ ptasks = <<>> /\ submitted = {}
     /\ ~raised
     /\ Returned => result = [success |-> FALSE, text |-> <<>>]

\* C6 witness: extract_text returned for an opened zero-page document.
C6_Witness ==
  /\ Returned
  /\ pdf.canOpen /\ pdf.total_pages = 0 /\ batch_size >= 1
  /\ result = [success |-> FALSE, text |-> <<>>]

\* C7: extract_text returns success exactly when some page yielded a
\* non-empty text, and then the text is non-empty; otherwise the text is "".
C7_SuccessIffSomeText ==
  Returned =>
     /\ result.success <=> \E t \in Tasks : Truthy(ptasks[t].ret)
     /\ result.success => result.text # <<>>
     /\ ~result.success => result.text = <<>>

\* C7 witness: every page of a multi-page document failed direct extraction
\* and recognition, one of them with an empty recognition result.
C7_Witness ==
  /\ Returned /\ collected
  /\ pdf.total_pages >= 2
  /\ \A t \in Tasks : DirectText(ptasks[t].page_num) = <<>> /\ PageFailed(t)
  /\ \E t \in Tasks : RecognitionEmpty(t)
  /\ result = [success |-> FALSE, text |-> <<>>]

\* An error in extract_text itself: the document cannot be opened, or a
\* division by zero (batch_size = 0, or the rate over zero pages).
SessionError == ~pdf.canOpen \/ batch_size = 0 \/ pdf.total_pages = 0

\* C8: extract_text never raises; it always returns a definite pair, and on
\* an open failure or an internal error that pair is (False, "").
C8_NeverRaises ==
  /\ ~raised
  /\ Returned => result # NoResult
  /\ (Returned /\ SessionError) => result = [success |-> FALSE, text |-> <<>>]

\* C8 witness: the document could not be opened and extract_text returned.
C8_Witness ==
  /\ Returned
  /\ ~pdf.canOpen
  /\ pdf_document = "None"
  /\ result = [success |-> FALSE, text |-> <<>>]

\* C9: every temporary image a page task created is deleted by the time the
\* task has returned.
C9_TempFilesDeleted ==
  \A t \in Tasks :
    (t \in tmpCreated /\ ptasks[t].pc \in {"done", "raised"}) => t \notin tmpFiles

\* C10: every document extract_text opened is closed exactly once before it
\* returns.
C10_ClosedExactlyOnce ==
  (Returned /\ pdf.canOpen) => closeCount = 1 /\ pdf_document = "closed"

\* C11: the pool exists exactly while the session is entered; once the
\* async-with block has returned control, by a return or by an exception of
\* the block, the executor is None and no recognition call of the session
\* is queued or running.
C11_PoolShutDownOnExit ==
  /\ session = "new" => executor = "None"
  /\ session = "entered" => executor = "pool"
  /\ session = "exited" =>
       executor = "None" /\ running = {} /\ poolQueue = <<>>
  /\ handler.pc \in {"done", "raised"} => session # "entered"

\* C11 witness: the session was exited after at least two recognition calls
\* of it had been submitted, some of them queued behind a saturated pool.
C11_Witness ==
  /\ session = "exited"
  /\ Cardinality(submitted) >= 2
  /\ concurrent_limit = 1

\* C12: for a .pdf upload whose first conversion yields no text, the
\* extract_text call of the handler's session returns a (success, text) pair
\* to the handler, and once the handler is through it has scheduled the
\* deletion and returned a MarkdownResponse, carrying the merged text when
\* success is true.
C12_UploadAnswersAfterSession ==
  (upload.caller = "upload_file" /\ upload.is_pdf /\ upload.first_text = <<>>) =>
     /\ session = "exited" => mpc = "returned" /\ result # NoResult
     /\ handler.pc \in {"done", "raised"} =>
          /\ handler.pc = "done"
          /\ handler.deletion_scheduled
          /\ handler.response.success
          /\ result.success => handler.response.text = result.text

RECURSIVE SumOf(_)
SumOf(ns) == IF ns = <<>> THEN 0 ELSE Head(ns) + SumOf(Tail(ns))

\* C13: in every completed session the per-batch success counts sum to the
\* number of pages whose text is kept in the final result.
C13_BatchCountsMatchFinal ==
  (Returned /\ collected) => SumOf(report.batch_success) = report.valid

====
